---- MODULE Spec2Model ----
(***************************************************************************)
(* Order-placement workflow of examples/ex07.rs: the domain constructor    *)
(* Order::new, the three ports (OrderRepository, PaymentGateway, Sender),  *)
(* the orchestrator OrderService (place_order, get_order) and the          *)
(* HashMap-backed repository adapter; then the one-port services of        *)
(* examples/ex02.rs, ex03bis.rs and ex05.rs, each under a specification    *)
(* of its own over the same variables.                                     *)
(*                                                                         *)
(* u32 values (Money, OrderId, next_id) are kept at their width as two     *)
(* 16-bit limbs [hi, lo], value = hi * 65536 + lo, so that additions wrap  *)
(* or trap exactly where the 32-bit additions of the program do.           *)
(***************************************************************************)
EXTENDS Integers, Sequences, FiniteSets, TLC

VARIABLES
    overflow_checks, \* build profile: TRUE = debug (overflow panics), FALSE = release (wraps)
    next_id,         \* OrderService.next_id
    orders,          \* InMemoryOrderRepository.orders : HashMap<OrderId, Order>
    pc,              \* position of the caller: "idle" or inside place_order
    local,           \* locals of the running place_order: order_id, items, order
    history,         \* one entry per place_order invocation: id, items, port calls, result
    got,             \* the get_order calls since the last place_order: the latest one
    handler,         \* the adapter a single-port service is constructed with (ex02, ex05)
    lock             \* the mutex around a shared orchestrator: its holder, or Free

vars == <<overflow_checks, next_id, orders, pc, local, history, got, handler, lock>>

----------------------------------------------------------------------------
(* Bounds of the model *)

MaxCalls == 2   \* place_order invocations per behaviour
MaxItems == 2   \* line items per invocation
MaxThreads == 2 \* callers sharing one orchestrator

----------------------------------------------------------------------------
(* u32 arithmetic *)

\* u32 = two limbs of 16 bits
Limb == 2^16

U32(n) == [hi |-> n \div Limb, lo |-> n % Limb]

U32Max == [hi |-> Limb - 1, lo |-> Limb - 1]

\* a + b on u32: the wrapped value and whether the exact sum left the type
AddU32(a, b) ==
    LET lo == a.lo + b.lo
        hi == a.hi + b.hi + (lo \div Limb)
    IN  [val |-> [hi |-> hi % Limb, lo |-> lo % Limb], overflow |-> hi >= Limb]

----------------------------------------------------------------------------
(* Domain *)

LineItem(name, price) == [name |-> name, price |-> price]

\* the line items the callers order from; scenario 1 of the composition root is
\* <<Book, Keyboard>>, and Server carries the largest Money
Menu ==
    << LineItem("Book", U32(4999)),
       LineItem("Keyboard", U32(12999)),
       LineItem("Server", U32Max) >>

\* n consecutive entries of the menu from entry start on, cyclically
Take(start, n) == [i \in 1..n |-> Menu[((start + i - 2) % Len(Menu)) + 1]]

ItemSeqs == { Take(start, n) : start \in 1..Len(Menu), n \in 0..MaxItems }

\* items.iter().map(|item| item.price.0).sum(): a left fold of + from 0
RECURSIVE iter_sum(_, _)
iter_sum(items, acc) ==
    IF items = <<>> THEN acc
    ELSE LET r == AddU32(acc.val, Head(items).price)
         IN  iter_sum(Tail(items),
                      [val |-> r.val, overflow |-> acc.overflow \/ r.overflow])

\* Order::new without the is_empty check
Order_new_unchecked(id, items, checks) ==
    LET total == iter_sum(items, [val |-> U32(0), overflow |-> FALSE])
    IN  IF total.overflow /\ checks
        THEN [tag |-> "Panic"]
        ELSE [tag |-> "Ok",
              order |-> [id |-> id, items |-> items, total |-> total.val]]

\* Order::new: Err(InvalidOrder) on no items; the total is the u32 sum, which
\* panics on overflow when overflow checks are compiled in and wraps otherwise
Order_new(id, items, checks) ==
    IF items = <<>> THEN [tag |-> "Err", err |-> "InvalidOrder"]
    ELSE LET total == iter_sum(items, [val |-> U32(0), overflow |-> FALSE])
         IN  IF total.overflow /\ checks
             THEN [tag |-> "Panic"]
             ELSE [tag |-> "Ok",
                   order |-> [id |-> id, items |-> items, total |-> total.val]]

----------------------------------------------------------------------------
(* Ports: what a call can return *)

\* enum OrderError
OrderError == {"InvalidOrder", "PaymentFailed", "StorageFailed", "NotificationFailed"}

\* the error each port reports when it fails
ChargeErrors == {"PaymentFailed"}
SaveErrors   == {"StorageFailed"}
SendErrors   == {"NotificationFailed"}
FindErrors   == {"StorageFailed"}

\* Result<(), OrderError> of charge, save and send; find is Result<Option<Order>, _>
ChargeResults == {"Ok"} \cup (ChargeErrors \cap OrderError)
SaveResults   == {"Ok"} \cup (SaveErrors \cap OrderError)
SendResults   == {"Ok"} \cup (SendErrors \cap OrderError)
FindResults   == {"Ok"} \cup (FindErrors \cap OrderError)

\* a store that keeps the last order only
save_only_last(repo, order) ==
    [k \in {order.id} |-> order]

\* entry(order.id).or_insert(order.clone()): the first order under a key stays
save_keep_first(repo, order) ==
    [k \in DOMAIN repo \cup {order.id} |-> IF k \in DOMAIN repo THEN repo[k] ELSE order]

\* HashMap::insert(order.id, order.clone())
save(repo, order) ==
    [k \in DOMAIN repo \cup {order.id} |-> IF k = order.id THEN order ELSE repo[k]]

\* a lookup that ignores the key
find_any(repo, id) ==
    IF DOMAIN repo # {} THEN [tag |-> "Some", order |-> repo[CHOOSE k \in DOMAIN repo : TRUE]]
                        ELSE [tag |-> "None"]

\* HashMap::get(&id).cloned()
find(repo, id) ==
    IF id \in DOMAIN repo THEN [tag |-> "Some", order |-> repo[id]]
                          ELSE [tag |-> "None"]

----------------------------------------------------------------------------
(* Orchestrator *)

NoHandler == "none"
Free      == "free"

NoLocal == [tag |-> "none"]
NoGet   == [tag |-> "none"]
Pending == [tag |-> "Pending"]

Call(port, arg, res) == [port |-> port, arg |-> arg, res |-> res]

Cur == Len(history)

\* appended when an invocation starts
Started(id, items) ==
    [id |-> id, items |-> items, ports |-> <<>>, ret |-> Pending]

Logged(call) ==
    [history EXCEPT ![Cur].ports = Append(@, call)]

Returned(h, ret) ==
    [h EXCEPT ![Cur].ret = ret]

\* map_err to one catch-all kind
Propagate_generic(e) == [tag |-> "Err", err |-> "InvalidOrder"]

\* the ? operator on Result<_, OrderError>: the error is returned as it is
Propagate(e) == [tag |-> "Err", err |-> e]

Init ==
    /\ overflow_checks \in BOOLEAN
    /\ next_id = U32(1)
    /\ orders = << >>
    /\ pc = "idle"
    /\ local = NoLocal
    /\ history = <<>>
    /\ got = NoGet
    /\ handler = NoHandler
    /\ lock = Free

\* the increment left out: every invocation reads the same next_id
place_order_alloc_no_advance(items) ==
    /\ pc = "idle"
    /\ Cur < MaxCalls
    /\ history' = Append(history, Started(next_id, items))
    /\ local' = [order_id |-> next_id, items |-> items]
    /\ pc' = "new"
    /\ got' = NoGet
    /\ UNCHANGED <<overflow_checks, handler, lock, next_id, orders>>

\* the counter advanced only for a non-empty order
place_order_alloc_late(items) ==
    /\ pc = "idle"
    /\ Cur < MaxCalls
    /\ history' = Append(history, Started(next_id, items))
    /\ next_id' = IF items = <<>> THEN next_id ELSE AddU32(next_id, U32(1)).val
    /\ local' = [order_id |-> next_id, items |-> items]
    /\ pc' = "new"
    /\ got' = NoGet
    /\ UNCHANGED <<overflow_checks, handler, lock, orders>>

\* let order_id = OrderId(self.next_id); self.next_id += 1;
place_order_alloc(items) ==
    /\ pc = "idle"
    /\ Cur < MaxCalls
    /\ LET inc == AddU32(next_id, U32(1))
       IN  /\ history' = Append(history, Started(next_id, items))
           /\ IF inc.overflow /\ overflow_checks
              THEN /\ pc' = "panicked"
                   /\ UNCHANGED <<next_id, local>>
              ELSE /\ next_id' = inc.val
                   /\ local' = [order_id |-> next_id, items |-> items]
                   /\ pc' = "new"
    /\ got' = NoGet
    /\ UNCHANGED <<overflow_checks, handler, lock, orders>>

\* let order = Order::new(order_id, items)?;
place_order_new ==
    /\ pc = "new"
    /\ LET r == Order_new(local.order_id, local.items, overflow_checks)
       IN  CASE r.tag = "Panic" ->
                  /\ pc' = "panicked"
                  /\ UNCHANGED <<local, history>>
             [] r.tag = "Err" ->
                  /\ pc' = "idle"
                  /\ local' = NoLocal
                  /\ history' = Returned(history, Propagate(r.err))
             [] r.tag = "Ok" ->
                  /\ pc' = "charge"
                  /\ local' = [order |-> r.order]
                  /\ UNCHANGED history
    /\ UNCHANGED <<overflow_checks, handler, lock, next_id, orders, got>>

\* the result of charge dropped: let _ = self.payment.charge(order.total);
place_order_charge_unchecked ==
    /\ pc = "charge"
    /\ \E res \in ChargeResults :
         history' = Logged(Call("charge", local.order.total, res))
    /\ pc' = "save"
    /\ UNCHANGED <<overflow_checks, handler, lock, next_id, orders, local, got>>

\* the save step left out: charge is followed by send
place_order_charge_skip_save ==
    /\ pc = "charge"
    /\ \E res \in ChargeResults :
         LET h == Logged(Call("charge", local.order.total, res))
         IN  IF res = "Ok"
             THEN /\ pc' = "send"
                  /\ history' = h
                  /\ UNCHANGED local
             ELSE /\ pc' = "idle"
                  /\ history' = Returned(h, Propagate(res))
                  /\ local' = NoLocal
    /\ UNCHANGED <<overflow_checks, handler, lock, next_id, orders, got>>

\* the order written to the repository before the payment is attempted
place_order_charge_presave ==
    /\ pc = "charge"
    /\ orders' = save(orders, local.order)
    /\ \E res \in ChargeResults :
         LET h == Logged(Call("charge", local.order.total, res))
         IN  IF res = "Ok"
             THEN /\ pc' = "save"
                  /\ history' = h
                  /\ UNCHANGED local
             ELSE /\ pc' = "idle"
                  /\ history' = Returned(h, Propagate(res))
                  /\ local' = NoLocal
    /\ UNCHANGED <<overflow_checks, handler, lock, next_id, got>>

\* self.payment.charge(order.total)?;
place_order_charge ==
    /\ pc = "charge"
    /\ \E res \in ChargeResults :
         LET h == Logged(Call("charge", local.order.total, res))
         IN  IF res = "Ok"
             THEN /\ pc' = "save"
                  /\ history' = h
                  /\ UNCHANGED local
             ELSE /\ pc' = "idle"
                  /\ history' = Returned(h, Propagate(res))
                  /\ local' = NoLocal
    /\ UNCHANGED <<overflow_checks, handler, lock, next_id, orders, got>>

\* the result of save dropped: let _ = self.repository.save(&order);
place_order_save_unchecked ==
    /\ pc = "save"
    /\ \E res \in SaveResults :
         /\ history' = Logged(Call("save", local.order, res))
         /\ orders' = IF res = "Ok" THEN save(orders, local.order) ELSE orders
    /\ pc' = "send"
    /\ UNCHANGED <<overflow_checks, handler, lock, next_id, local, got>>

\* a write-behind store: save answers Ok and the map is not written yet
place_order_save_deferred ==
    /\ pc = "save"
    /\ \E res \in SaveResults :
         LET h == Logged(Call("save", local.order, res))
         IN  IF res = "Ok"
             THEN /\ pc' = "send"
                  /\ history' = h
                  /\ UNCHANGED local
             ELSE /\ pc' = "idle"
                  /\ history' = Returned(h, Propagate(res))
                  /\ local' = NoLocal
    /\ UNCHANGED <<overflow_checks, handler, lock, next_id, orders, got>>

\* self.repository.save(&order)?;
place_order_save ==
    /\ pc = "save"
    /\ \E res \in SaveResults :
         LET h == Logged(Call("save", local.order, res))
         IN  IF res = "Ok"
             THEN /\ pc' = "send"
                  /\ orders' = save(orders, local.order)
                  /\ history' = h
                  /\ UNCHANGED local
             ELSE /\ pc' = "idle"
                  /\ history' = Returned(h, Propagate(res))
                  /\ local' = NoLocal
                  /\ UNCHANGED orders
    /\ UNCHANGED <<overflow_checks, handler, lock, next_id, got>>

\* a compensating un-save when the notification fails
place_order_send_unsave ==
    /\ pc = "send"
    /\ \E res \in SendResults :
         LET h == Logged(Call("send", local.order, res))
         IN  /\ pc' = "idle"
             /\ local' = NoLocal
             /\ history' = Returned(h, IF res = "Ok"
                                       THEN [tag |-> "Ok", order |-> local.order]
                                       ELSE Propagate(res))
             /\ orders' = IF res = "Ok" THEN orders
                          ELSE [k \in DOMAIN orders \ {local.order.id} |-> orders[k]]
    /\ UNCHANGED <<overflow_checks, handler, lock, next_id, got>>

\* the result of send dropped: let _ = self.sender.send(&order); Ok(order)
place_order_send_unchecked ==
    /\ pc = "send"
    /\ \E res \in SendResults :
         history' = Returned(Logged(Call("send", local.order, res)),
                             [tag |-> "Ok", order |-> local.order])
    /\ pc' = "idle"
    /\ local' = NoLocal
    /\ UNCHANGED <<overflow_checks, handler, lock, next_id, orders, got>>

\* self.sender.send(&order)?; Ok(order)
place_order_send ==
    /\ pc = "send"
    /\ \E res \in SendResults :
         LET h == Logged(Call("send", local.order, res))
         IN  /\ pc' = "idle"
             /\ local' = NoLocal
             /\ history' = Returned(h, IF res = "Ok"
                                       THEN [tag |-> "Ok", order |-> local.order]
                                       ELSE Propagate(res))
    /\ UNCHANGED <<overflow_checks, handler, lock, next_id, orders, got>>

place_order ==
    \/ \E items \in ItemSeqs : place_order_alloc(items)
    \/ place_order_new
    \/ place_order_charge
    \/ place_order_save
    \/ place_order_send

GetIds == { U32(n) : n \in 1..(MaxCalls + 1) }

\* a failing find turned into "not found": self.repository.find(id).or(Ok(None))
get_order_lenient(id) ==
    /\ pc = "idle"
    /\ \E res \in FindResults :
         got' = [tag |-> "called", id |-> id,
                 ports |-> << Call("find", id, res) >>,
                 ret |-> IF res = "Ok" THEN find(orders, id) ELSE [tag |-> "None"]]
    /\ UNCHANGED <<overflow_checks, handler, lock, next_id, orders, pc, local, history>>

\* self.repository.find(id)
get_order(id) ==
    /\ pc = "idle"
    /\ \E res \in FindResults :
         got' = [tag |-> "called", id |-> id,
                 ports |-> << Call("find", id, res) >>,
                 ret |-> IF res = "Ok" THEN find(orders, id) ELSE Propagate(res)]
    /\ UNCHANGED <<overflow_checks, handler, lock, next_id, orders, pc, local, history>>

Next ==
    \/ place_order
    \/ \E id \in GetIds : get_order(id)

Spec == Init /\ [][Next]_vars

----------------------------------------------------------------------------
(* Reading the record of the invocations *)

Invocations == 1..Len(history)

PortNames(k) == [i \in 1..Len(history[k].ports) |-> history[k].ports[i].port]

\* how many times invocation k called the port
Count(k, port) ==
    Cardinality({ i \in 1..Len(history[k].ports) : history[k].ports[i].port = port })

\* invocation k made a call of the port that failed
Failed(k, port) ==
    \E i \in 1..Len(history[k].ports) :
        history[k].ports[i].port = port /\ history[k].ports[i].res # "Ok"

ReturnedErr(k, e) == history[k].ret.tag = "Err" /\ history[k].ret.err = e

IsPrefix(s, t) == Len(s) <= Len(t) /\ \A i \in 1..Len(s) : s[i] = t[i]

Workflow == <<"charge", "save", "send">>

Succ(id) == AddU32(id, U32(1)).val

\* the sum of the prices as a number of any size: hi is not reduced
RECURSIVE SumHi(_)
SumHi(items) == IF items = <<>> THEN 0 ELSE Head(items).price.hi + SumHi(Tail(items))

RECURSIVE SumLo(_)
SumLo(items) == IF items = <<>> THEN 0 ELSE Head(items).price.lo + SumLo(Tail(items))

ExactSum(items) ==
    [hi |-> SumHi(items) + (SumLo(items) \div Limb), lo |-> SumLo(items) % Limb]

----------------------------------------------------------------------------
(* Claims *)

\* C1: an invocation of place_order whose charge failed called neither save
\* nor send, and returned PaymentFailed.
C1_ChargeFailureStopsWorkflow ==
    \A k \in Invocations :
        Failed(k, "charge") =>
            /\ Count(k, "save") = 0
            /\ Count(k, "send") = 0
            /\ ReturnedErr(k, "PaymentFailed")

C1_Witness ==
    \E k \in Invocations :
        /\ Failed(k, "charge")
        /\ history[k].ret.tag = "Err"
        /\ pc = "idle"

\* C2: an invocation of place_order whose save failed never called send,
\* called charge exactly once (successfully) before the save, made no port
\* call after the failed save (no refund), and returned StorageFailed.
C2_SaveFailureKeepsCharge ==
    \A k \in Invocations :
        Failed(k, "save") =>
            /\ Count(k, "send") = 0
            /\ Count(k, "charge") = 1
            /\ PortNames(k) = <<"charge", "save">>
            /\ history[k].ports[1].res = "Ok"
            /\ ReturnedErr(k, "StorageFailed")

C2_Witness ==
    \E k \in Invocations :
        /\ Failed(k, "save")
        /\ history[k].ret.tag = "Err"
        /\ k < Len(history)

\* C3: the k-th invocation of place_order uses identifier k, whatever the
\* outcome of the invocations, and next_id is 1 + the number of invocations
\* made so far.
C3_IdsAdvanceByOne ==
    /\ next_id = U32(1 + Len(history))
    /\ \A k \in Invocations : history[k].id = U32(k)
    /\ \A k \in Invocations : k > 1 => history[k].id = Succ(history[k - 1].id)

C3_Witness ==
    /\ Len(history) = 2
    /\ history[1].ret.tag = "Err"
    /\ history[2].ret.tag = "Ok"
    /\ history[2].id = U32(2)

\* C4: place_order with no items returns InvalidOrder, calls no port, and
\* still consumes its identifier: the counter is one past it on return and
\* the next invocation uses the following identifier.
C4_EmptyOrderConsumesId ==
    \A k \in Invocations :
        history[k].items = <<>> =>
            /\ history[k].ports = <<>>
            /\ history[k].ret.tag \in {"Pending", "Err"}
            /\ history[k].ret.tag = "Err" => history[k].ret.err = "InvalidOrder"
            /\ (k = Len(history) /\ pc = "idle") =>
                   /\ ReturnedErr(k, "InvalidOrder")
                   /\ next_id = Succ(history[k].id)
            /\ k < Len(history) =>
                   /\ ReturnedErr(k, "InvalidOrder")
                   /\ history[k + 1].id = Succ(history[k].id)

C4_Witness ==
    /\ Len(history) = 2
    /\ history[1].items = <<>>
    /\ ReturnedErr(1, "InvalidOrder")
    /\ history[2].id = U32(2)

\* C5: every order built from a non-empty item sequence, and every order
\* place_order returns, has a total equal to the exact sum of the item
\* amounts, for all u32 amounts (no wrap-around of the sum).
C5_TotalIsExactSum ==
    /\ \A k \in Invocations :
           history[k].ret.tag = "Ok" =>
               history[k].ret.order.total = ExactSum(history[k].items)
    /\ pc \in {"charge", "save", "send"} =>
           local.order.total = ExactSum(local.order.items)

\* C6: the port calls of an invocation are a prefix of charge, save, send;
\* a successful invocation made exactly these three calls, each successful,
\* and returned an order with the allocated identifier and the given items.
C6_FixedPortOrder ==
    \A k \in Invocations :
        /\ IsPrefix(PortNames(k), Workflow)
        /\ history[k].ret.tag = "Ok" =>
               /\ PortNames(k) = Workflow
               /\ \A i \in 1..3 : history[k].ports[i].res = "Ok"
               /\ history[k].ret.order.id = history[k].id
               /\ history[k].ret.order.items = history[k].items

C6_Witness ==
    \E k \in Invocations :
        /\ history[k].ret.tag = "Ok"
        /\ history[k].items = <<Menu[1], Menu[2]>>
        /\ history[k].ret.order.total = U32(17998)

\* the invocations of place_order that succeeded with identifier id
Placed(id) ==
    { k \in Invocations : history[k].ret.tag = "Ok" /\ history[k].id = id }

\* the invocations of place_order that passed identifier id to Repository.save
PassedToSave(id) ==
    { k \in Invocations :
        \E i \in 1..Len(history[k].ports) :
            history[k].ports[i].port = "save" /\ history[k].ports[i].arg.id = id }

\* the find call of the last get_order returned without an error
FindAnswered == got.tag = "called" /\ got.ports[1].res = "Ok"

IsSome(ret, order) == ret.tag = "Some" /\ ret.order = order

\* C7 as stated: get_order with the identifier of an order that place_order
\* returned gives Some of that very order, after any further invocations.
C7_GetReturnsPlacedOrder ==
    got.tag = "called" =>
        \A k \in Placed(got.id) : IsSome(got.ret, history[k].ret.order)

\* C7 amended: get_order with the identifier of an order that place_order
\* returned gives Some of that very order (id, items, total), after any
\* further invocations, unless Repository.find itself fails.
C7_GetReturnsPlacedOrderUnlessFindFails ==
    FindAnswered =>
        \A k \in Placed(got.id) : IsSome(got.ret, history[k].ret.order)

C7_Witness ==
    /\ FindAnswered
    /\ Len(history) = 2
    /\ got.id = U32(1)
    /\ Placed(got.id) = {1}
    /\ IsSome(got.ret, history[1].ret.order)

\* C8: get_order with an identifier that no invocation passed to save returns
\* None when find does not fail, also when a failed place_order consumed the
\* identifier.
C8_GetUnknownIsNone ==
    (FindAnswered /\ PassedToSave(got.id) = {}) => got.ret.tag = "None"

C8_Witness ==
    /\ FindAnswered
    /\ PassedToSave(got.id) = {}
    /\ \E k \in Invocations : history[k].id = got.id /\ history[k].ret.tag = "Err"
    /\ DOMAIN orders # {}
    /\ got.ret.tag = "None"

\* the order that invocation k handed to the ports
OrderOf(k) == history[k].ports[2].arg

\* C9, first half: an invocation whose send failed returned NotificationFailed
\* after a successful charge and a successful save, and its order stays in the
\* repository under its identifier.
C9_SendFailureKeepsOrder ==
    \A k \in Invocations :
        Failed(k, "send") =>
            /\ ReturnedErr(k, "NotificationFailed")
            /\ PortNames(k) = Workflow
            /\ history[k].ports[1].res = "Ok"
            /\ history[k].ports[2].res = "Ok"
            /\ history[k].id \in DOMAIN orders
            /\ orders[history[k].id] = OrderOf(k)

\* C9 as stated: ... and a later get_order with its identifier returns it.
C9_SendFailureOrderRetrievable ==
    /\ C9_SendFailureKeepsOrder
    /\ got.tag = "called" =>
           \A k \in Invocations :
               (Failed(k, "send") /\ history[k].id = got.id) =>
                   IsSome(got.ret, OrderOf(k))

\* C9 amended: ... and a later get_order with its identifier returns it,
\* unless Repository.find itself fails.
C9_SendFailureOrderRetrievableUnlessFindFails ==
    /\ C9_SendFailureKeepsOrder
    /\ FindAnswered =>
           \A k \in Invocations :
               (Failed(k, "send") /\ history[k].id = got.id) =>
                   IsSome(got.ret, OrderOf(k))

C9_Witness ==
    /\ FindAnswered
    /\ \E k \in Invocations :
           /\ Failed(k, "send")
           /\ history[k].id = got.id
           /\ IsSome(got.ret, OrderOf(k))

\* the error that the first failing step of invocation k produced
FirstError(k) ==
    IF history[k].items = <<>> THEN "InvalidOrder"
    ELSE history[k].ports[Len(history[k].ports)].res

\* C10: an invocation that returns an error returns the error of its first
\* failing step unchanged; every port call before the failing one succeeded,
\* no port was called twice (no retry) and the failing step is the last one.
C10_FirstErrorVerbatim ==
    \A k \in Invocations :
        history[k].ret.tag = "Err" =>
            /\ history[k].items # <<>> => history[k].ports # <<>>
            /\ history[k].ret.err = FirstError(k)
            /\ history[k].ret.err \in OrderError
            /\ \A i \in 1..(Len(history[k].ports) - 1) : history[k].ports[i].res = "Ok"
            /\ \A port \in {"charge", "save", "send"} : Count(k, port) <= 1

C10_Witness ==
    /\ Len(history) = 2
    /\ ReturnedErr(1, "StorageFailed")
    /\ ReturnedErr(2, "NotificationFailed")

\* how many port calls of invocation k failed
Failures(k) ==
    Cardinality({ i \in 1..Len(history[k].ports) : history[k].ports[i].res # "Ok" })

HasReturned(k) == history[k].ret.tag \in {"Ok", "Err"}

\* C11: the error kind place_order returns names the step that failed:
\* InvalidOrder exactly when the constructor rejected the items, PaymentFailed
\* exactly when charge failed, StorageFailed exactly when save failed,
\* NotificationFailed exactly when send failed; at most one step fails per
\* invocation, and an invocation with a failed step never returns Ok.
C11_ErrorNamesFailingStep ==
    \A k \in Invocations :
        /\ Failures(k) <= 1
        /\ HasReturned(k) =>
               /\ ReturnedErr(k, "InvalidOrder") <=> history[k].items = <<>>
               /\ ReturnedErr(k, "PaymentFailed") <=> Failed(k, "charge")
               /\ ReturnedErr(k, "StorageFailed") <=> Failed(k, "save")
               /\ ReturnedErr(k, "NotificationFailed") <=> Failed(k, "send")
               /\ history[k].ret.tag = "Ok" =>
                      (Failures(k) = 0 /\ history[k].items # <<>>)
        /\ Failures(k) = 1 => history[k].ret.tag = "Err"

C11_Witness ==
    /\ Len(history) = 2
    /\ ReturnedErr(1, "NotificationFailed")
    /\ ReturnedErr(2, "PaymentFailed")

\* what get_order must return for the answer res of find on repository repo
Delegated(repo, id, res) ==
    IF res = "Ok" THEN find(repo, id) ELSE [tag |-> "Err", err |-> res]

\* C12: a get_order(id) step makes exactly one port call, find(id), returns
\* its result unchanged (Some, None or StorageFailed), and leaves next_id,
\* the repository and the record of charge, save and send calls as they were.
C12_GetOrderOnlyDelegates ==
    [][ (got' # got /\ got'.tag = "called") =>
            /\ Len(got'.ports) = 1
            /\ got'.ports[1].port = "find"
            /\ got'.ports[1].arg = got'.id
            /\ got'.ret = Delegated(orders, got'.id, got'.ports[1].res)
            /\ next_id' = next_id
            /\ orders' = orders
            /\ history' = history
            /\ pc' = pc ]_vars

C12_Witness ==
    /\ got.tag = "called"
    /\ got.ret.tag = "Err"
    /\ got.ret.err = "StorageFailed"
    /\ got.id \in DOMAIN orders

\* the orders that place_order returned or that the repository holds
KnownOrders ==
    { history[k].ret.order : k \in { j \in Invocations : history[j].ret.tag = "Ok" } }
        \cup { orders[id] : id \in DOMAIN orders }

\* C13: every order returned by place_order or held in the repository has at
\* least one line item and a total equal to the sum of its items' amounts.
C13_OrderInvariant ==
    \A o \in KnownOrders :
        /\ Len(o.items) >= 1
        /\ o.total = ExactSum(o.items)

\* C14: when send is about to be invoked the repository holds the order under
\* its identifier, and when save is about to be invoked the charge of
\* order.total has completed successfully; the same holds of every logged
\* save and send call.
C14_EffectsVisibleBeforeNextStep ==
    /\ pc \in {"save", "send"} =>
           history[Cur].ports[1] = Call("charge", local.order.total, "Ok")
    /\ pc = "send" =>
           /\ history[Cur].ports[2] = Call("save", local.order, "Ok")
           /\ IsSome(find(orders, local.order.id), local.order)
    /\ \A k \in Invocations :
           /\ Count(k, "save") > 0 =>
                  history[k].ports[1] = Call("charge", history[k].ports[2].arg.total, "Ok")
           /\ Count(k, "send") > 0 =>
                  /\ history[k].ports[2] = Call("save", history[k].ports[3].arg, "Ok")
                  /\ k = Cur => IsSome(find(orders, history[k].id), history[k].ports[3].arg)

C14_Witness ==
    /\ pc = "send"
    /\ Len(history) = 2
    /\ Cardinality(DOMAIN orders) = 2

----------------------------------------------------------------------------
(* One-port services: examples/ex02.rs (notifier owned by the service) and  *)
(* examples/ex03bis.rs (notifier handed to every call)                      *)

\* struct Order { id: u32, total: u32 }
SimpleOrder(id, total) == [id |-> id, total |-> total]

\* the totals the callers pass; 4999 is the one of the test and of main
Totals == { U32(0), U32(42), U32(4999), U32(12999), U32Max }

\* enum OrderError {} of these examples: no variant
NoOrderError == {}

\* Result<(), OrderError> of OrderNotifier::process
NotifyResults == {"Ok"} \cup NoOrderError

\* the implementations of OrderNotifier the callers choose from
Notifiers == {"ConsoleNotifier", "TestNotifier"}

CallOn(on, port, arg, res) == [on |-> on, port |-> port, arg |-> arg, res |-> res]

\* appended when process_order starts
StartedOrder(id, total, notifier) ==
    [id |-> id, total |-> total, notifier |-> notifier, ports |-> <<>>, ret |-> Pending]

\* OrderService::new(TestNotifier)
InitSingle ==
    /\ overflow_checks \in BOOLEAN
    /\ next_id = U32(1)
    /\ orders = << >>
    /\ pc = "idle"
    /\ local = NoLocal
    /\ history = <<>>
    /\ got = NoGet
    /\ handler = "TestNotifier"
    /\ lock = Free

\* the counter advanced before the order is built
process_order_build_preinc(total) ==
    /\ pc = "idle"
    /\ Cur < MaxCalls
    /\ LET inc == AddU32(next_id, U32(1))
       IN  /\ history' = Append(history, StartedOrder(inc.val, total, handler))
           /\ next_id' = inc.val
           /\ local' = [order |-> SimpleOrder(inc.val, total), notifier |-> handler]
           /\ pc' = "notify"
    /\ UNCHANGED <<overflow_checks, handler, lock, orders, got>>

\* let order = Order { id: self.next_id, total }; self.next_id += 1;
process_order_build(total) ==
    /\ pc = "idle"
    /\ Cur < MaxCalls
    /\ LET inc == AddU32(next_id, U32(1))
       IN  /\ history' = Append(history, StartedOrder(next_id, total, handler))
           /\ IF inc.overflow /\ overflow_checks
              THEN /\ pc' = "panicked"
                   /\ UNCHANGED <<next_id, local>>
              ELSE /\ next_id' = inc.val
                   /\ local' = [order |-> SimpleOrder(next_id, total), notifier |-> handler]
                   /\ pc' = "notify"
    /\ UNCHANGED <<overflow_checks, handler, lock, orders, got>>

\* self.notifier.process(&order)?; Ok(order)
process_order_notify ==
    /\ pc = "notify"
    /\ \E res \in NotifyResults :
         LET h == Logged(CallOn(local.notifier, "process", local.order, res))
         IN  /\ pc' = "idle"
             /\ local' = NoLocal
             /\ history' = Returned(h, IF res = "Ok"
                                       THEN [tag |-> "Ok", order |-> local.order]
                                       ELSE Propagate(res))
    /\ UNCHANGED <<overflow_checks, handler, lock, next_id, orders, got>>

NextSingle ==
    \/ \E total \in Totals : process_order_build(total)
    \/ process_order_notify

SpecSingle == InitSingle /\ [][NextSingle]_vars

\* ex03bis: OrderService::new()
InitDyn ==
    /\ overflow_checks \in BOOLEAN
    /\ next_id = U32(1)
    /\ orders = << >>
    /\ pc = "idle"
    /\ local = NoLocal
    /\ history = <<>>
    /\ got = NoGet
    /\ handler = NoHandler
    /\ lock = Free

\* ex03bis: let order = Order { id: self.next_id, total }; self.next_id += 1;
process_order_dyn_build(total, notifier) ==
    /\ pc = "idle"
    /\ Cur < MaxCalls
    /\ LET inc == AddU32(next_id, U32(1))
       IN  /\ history' = Append(history, StartedOrder(next_id, total, notifier))
           /\ IF inc.overflow /\ overflow_checks
              THEN /\ pc' = "panicked"
                   /\ UNCHANGED <<next_id, local>>
              ELSE /\ next_id' = inc.val
                   /\ local' = [order |-> SimpleOrder(next_id, total), notifier |-> notifier]
                   /\ pc' = "notify"
    /\ UNCHANGED <<overflow_checks, handler, lock, orders, got>>

\* the notifier of the first call kept and used for every later call
process_order_dyn_notify_first ==
    /\ pc = "notify"
    /\ \E res \in NotifyResults :
         LET h == Logged(CallOn(history[1].notifier, "process", local.order, res))
         IN  /\ pc' = "idle"
             /\ local' = NoLocal
             /\ history' = Returned(h, IF res = "Ok"
                                       THEN [tag |-> "Ok", order |-> local.order]
                                       ELSE Propagate(res))
    /\ UNCHANGED <<overflow_checks, handler, lock, next_id, orders, got>>

\* ex03bis: notifier.process(&order)?; Ok(order)
process_order_dyn_notify ==
    /\ pc = "notify"
    /\ \E res \in NotifyResults :
         LET h == Logged(CallOn(local.notifier, "process", local.order, res))
         IN  /\ pc' = "idle"
             /\ local' = NoLocal
             /\ history' = Returned(h, IF res = "Ok"
                                       THEN [tag |-> "Ok", order |-> local.order]
                                       ELSE Propagate(res))
    /\ UNCHANGED <<overflow_checks, handler, lock, next_id, orders, got>>

NextDyn ==
    \/ \E total \in Totals, notifier \in Notifiers : process_order_dyn_build(total, notifier)
    \/ process_order_dyn_notify

SpecDyn == InitDyn /\ [][NextDyn]_vars

\* C15: a fresh service has the counter at 1; the k-th process_order builds
\* the order with id k = 1 + the number of earlier calls and with the total it
\* was given, and returns that order; the counter is 1 + the number of calls.
C15_SingleIdsFromOne ==
    /\ history = <<>> => next_id = U32(1)
    /\ next_id = U32(1 + Len(history))
    /\ \A k \in Invocations :
           /\ history[k].id = U32(k)
           /\ history[k].ret.tag = "Ok" =>
                  /\ history[k].ret.order.id = U32(1 + (k - 1))
                  /\ history[k].ret.order.total = history[k].total
                  /\ history[k].ports[1].arg = history[k].ret.order

C15_Witness ==
    /\ Len(history) = 2
    /\ history[1].ret.tag = "Ok"
    /\ history[1].ret.order = SimpleOrder(U32(1), U32(4999))
    /\ history[2].ret.tag = "Ok"
    /\ history[2].ret.order = SimpleOrder(U32(2), U32Max)

\* C16: with the notifier handed to each call, every call invokes exactly the
\* notifier it was given, once, with the order it built, and the identifiers
\* run 1, 2, 3, ... whichever notifiers the calls use.
C16_PerCallNotifier ==
    /\ next_id = U32(1 + Len(history))
    /\ \A k \in Invocations :
           /\ history[k].id = U32(k)
           /\ Len(history[k].ports) <= 1
           /\ \A i \in 1..Len(history[k].ports) :
                  /\ history[k].ports[i].on = history[k].notifier
                  /\ history[k].ports[i].arg = SimpleOrder(U32(k), history[k].total)
           /\ HasReturned(k) =>
                  /\ Len(history[k].ports) = 1
                  /\ history[k].ret.tag = "Ok"
                  /\ history[k].ret.order = SimpleOrder(U32(k), history[k].total)

C16_Witness ==
    /\ Len(history) = 2
    /\ HasReturned(1)
    /\ HasReturned(2)
    /\ history[1].notifier = "ConsoleNotifier"
    /\ history[2].notifier = "TestNotifier"
    /\ history[2].ports[1].on = "TestNotifier"
    /\ history[2].ret.order.id = U32(2)

----------------------------------------------------------------------------
(* The one-port template of examples/ex05.rs *)

\* struct Stuff { value: u32 }
Stuff(value) == [value |-> value]

\* the values the callers pass; 42 is the one of the test
StuffValues == { U32(0), U32(1), U32(42), U32(4999), U32Max }

\* enum StuffError {}: no variant
StuffError == {}

\* the implementations of StuffHandler: tests::TestHandler answers Ok(()),
\* adapters::MyAdapter is todo!() and panics
StuffHandlers == {"TestHandler", "MyAdapter"}

\* what handle does in the handler: return a Result<(), StuffError>, or panic
HandleResults(h) ==
    IF h = "MyAdapter" THEN {"Panic"} ELSE {"Ok"} \cup StuffError

\* StuffService has the handler reference as its only field: no counter
NoCounter == "none"

\* StuffService::new(&handler)
InitStuff ==
    /\ overflow_checks \in BOOLEAN
    /\ next_id = NoCounter
    /\ orders = << >>
    /\ pc = "idle"
    /\ local = NoLocal
    /\ history = <<>>
    /\ got = NoGet
    /\ handler \in StuffHandlers
    /\ lock = Free

\* appended when process starts
StartedStuff(value) == [value |-> value, ports |-> <<>>, ret |-> Pending]

\* the argument dropped: a Stuff of value 0 is built
process_build_zero(value) ==
    /\ pc = "idle"
    /\ Cur < MaxCalls
    /\ history' = Append(history, StartedStuff(value))
    /\ local' = [stuff |-> Stuff(U32(0))]
    /\ pc' = "handle"
    /\ UNCHANGED <<overflow_checks, handler, lock, next_id, orders, got>>

\* let stuff = Stuff { value };
process_build(value) ==
    /\ pc = "idle"
    /\ Cur < MaxCalls
    /\ history' = Append(history, StartedStuff(value))
    /\ local' = [stuff |-> Stuff(value)]
    /\ pc' = "handle"
    /\ UNCHANGED <<overflow_checks, handler, lock, next_id, orders, got>>

\* self.handler.handle(&stuff)?; Ok(stuff)
process_handle ==
    /\ pc = "handle"
    /\ \E res \in HandleResults(handler) :
         LET h == Logged(CallOn(handler, "handle", local.stuff, res))
         IN  IF res = "Panic"
             THEN /\ pc' = "panicked"
                  /\ history' = h
                  /\ UNCHANGED local
             ELSE /\ pc' = "idle"
                  /\ local' = NoLocal
                  /\ history' = Returned(h, IF res = "Ok"
                                            THEN [tag |-> "Ok", stuff |-> local.stuff]
                                            ELSE Propagate(res))
    /\ UNCHANGED <<overflow_checks, handler, lock, next_id, orders, got>>

NextStuff ==
    \/ \E value \in StuffValues : process_build(value)
    \/ process_handle

SpecStuff == InitStuff /\ [][NextStuff]_vars

\* C20: process(value) calls the handler of the service at most once, with a
\* Stuff of that value, and exactly once before it returns; when the handler
\* answers Ok it returns a Stuff of that value, when the handler answers an
\* error it returns that error and no Stuff; the service's only state, its
\* handler, never changes.
C20_ProcessCallsHandlerOnce ==
    /\ [](\A k \in Invocations :
             /\ Len(history[k].ports) <= 1
             /\ \A i \in 1..Len(history[k].ports) :
                    /\ history[k].ports[i].on = handler
                    /\ history[k].ports[i].port = "handle"
                    /\ history[k].ports[i].arg = Stuff(history[k].value)
             /\ HasReturned(k) =>
                    /\ Len(history[k].ports) = 1
                    /\ history[k].ports[1].res = "Ok" =>
                           /\ history[k].ret.tag = "Ok"
                           /\ history[k].ret.stuff = Stuff(history[k].value)
                    /\ history[k].ports[1].res # "Ok" =>
                           /\ history[k].ret.tag = "Err"
                           /\ history[k].ret.err = history[k].ports[1].res)
    /\ [][handler' = handler /\ next_id' = next_id]_vars

C20_Witness ==
    /\ handler = "TestHandler"
    /\ Len(history) = 2
    /\ history[1].ret.tag = "Ok"
    /\ history[2].ret.tag = "Ok"
    /\ history[2].ret.stuff = Stuff(U32(42))

----------------------------------------------------------------------------
(* Several callers on one orchestrator of examples/ex07.rs: pc and local    *)
(* are per caller. Under SpecLocked every place_order runs while its caller *)
(* holds the mutex; under SpecRace no caller takes it and line 167 (the     *)
(* read of next_id) and line 168 (its increment) are steps of their own.    *)
(* The adapters are the in-memory ones, whose calls all answer Ok.          *)

Threads == 1..MaxThreads

\* the identifier of an invocation that has not read next_id yet
NoId == [hi |-> 0 - 1, lo |-> 0 - 1]

\* MockPaymentGateway::charge, InMemoryOrderRepository::save, ConsoleSender::send
AdapterResults == {"Ok"}

\* appended when a caller starts place_order; seen is the set of invocations
\* that had advanced the counter when this one read it
StartedBy(t, items) ==
    [thread |-> t, id |-> NoId, items |-> items, ports |-> <<>>, ret |-> Pending,
     seen |-> {}, incremented |-> FALSE]

Incremented == { j \in 1..Len(history) : history[j].incremented }

InitThreads ==
    /\ overflow_checks \in BOOLEAN
    /\ next_id = U32(1)
    /\ orders = << >>
    /\ pc = [t \in Threads |-> "idle"]
    /\ local = [t \in Threads |-> NoLocal]
    /\ history = <<>>
    /\ got = NoGet
    /\ handler = NoHandler
    /\ lock = Free

\* the value of the mutex while caller t holds its guard
HeldBy(t) == ToString(t)

Goto(t, label) == pc' = [pc EXCEPT ![t] = label]

\* the caller's place_order returns: its guard, if it holds one, is dropped
Return(t, h, ret) ==
    /\ Goto(t, "idle")
    /\ local' = [local EXCEPT ![t] = NoLocal]
    /\ history' = [h EXCEPT ![local[t].k].ret = ret]
    /\ lock' = IF lock = HeldBy(t) THEN Free ELSE lock

LoggedBy(t, call) ==
    [history EXCEPT ![local[t].k].ports = Append(@, call)]

\* service.lock().unwrap().place_order(items): the caller takes the mutex
locked_begin(t, items) ==
    /\ pc[t] = "idle"
    /\ lock = Free
    /\ Cur < MaxCalls
    /\ lock' = HeldBy(t)
    /\ Goto(t, "alloc")
    /\ history' = Append(history, StartedBy(t, items))
    /\ local' = [local EXCEPT ![t] = [k |-> Cur + 1, items |-> items]]
    /\ UNCHANGED <<overflow_checks, handler, next_id, orders, got>>

\* place_order(items) called with no lock taken
race_begin(t, items) ==
    /\ pc[t] = "idle"
    /\ Cur < MaxCalls
    /\ Goto(t, "read")
    /\ history' = Append(history, StartedBy(t, items))
    /\ local' = [local EXCEPT ![t] = [k |-> Cur + 1, items |-> items]]
    /\ UNCHANGED <<overflow_checks, handler, lock, next_id, orders, got>>

\* the counter advanced only for a non-empty order
t_alloc_late(t) ==
    /\ pc[t] = "alloc"
    /\ history' = [history EXCEPT ![local[t].k].id = next_id,
                                  ![local[t].k].seen = Incremented,
                                  ![local[t].k].incremented = local[t].items # <<>>]
    /\ next_id' = IF local[t].items = <<>> THEN next_id ELSE AddU32(next_id, U32(1)).val
    /\ local' = [local EXCEPT ![t] = [k |-> local[t].k, items |-> local[t].items,
                                      order_id |-> next_id]]
    /\ Goto(t, "new")
    /\ UNCHANGED <<overflow_checks, handler, lock, orders, got>>

\* let order_id = OrderId(self.next_id); self.next_id += 1;
t_alloc(t) ==
    /\ pc[t] = "alloc"
    /\ LET inc == AddU32(next_id, U32(1))
           trap == inc.overflow /\ overflow_checks
       IN  /\ history' = [history EXCEPT ![local[t].k].id = next_id,
                                         ![local[t].k].seen = Incremented,
                                         ![local[t].k].incremented = ~trap]
           /\ IF trap
              THEN /\ Goto(t, "panicked")
                   /\ UNCHANGED <<next_id, local>>
              ELSE /\ next_id' = inc.val
                   /\ local' = [local EXCEPT ![t] = [k |-> local[t].k,
                                                     items |-> local[t].items,
                                                     order_id |-> next_id]]
                   /\ Goto(t, "new")
    /\ UNCHANGED <<overflow_checks, handler, lock, orders, got>>

\* let order_id = OrderId(self.next_id);
race_read(t) ==
    /\ pc[t] = "read"
    /\ history' = [history EXCEPT ![local[t].k].id = next_id,
                                  ![local[t].k].seen = Incremented]
    /\ local' = [local EXCEPT ![t] = [k |-> local[t].k, items |-> local[t].items,
                                      order_id |-> next_id]]
    /\ Goto(t, "inc")
    /\ UNCHANGED <<overflow_checks, handler, lock, next_id, orders, got>>

\* self.next_id += 1;
race_inc(t) ==
    /\ pc[t] = "inc"
    /\ LET inc == AddU32(next_id, U32(1))
       IN  IF inc.overflow /\ overflow_checks
           THEN /\ Goto(t, "panicked")
                /\ UNCHANGED <<next_id, history>>
           ELSE /\ next_id' = inc.val
                /\ history' = [history EXCEPT ![local[t].k].incremented = TRUE]
                /\ Goto(t, "new")
    /\ UNCHANGED <<overflow_checks, handler, lock, local, orders, got>>

\* let order = Order::new(order_id, items)?;
t_new(t) ==
    /\ pc[t] = "new"
    /\ LET r == Order_new(local[t].order_id, local[t].items, overflow_checks)
       IN  CASE r.tag = "Panic" ->
                  /\ Goto(t, "panicked")
                  /\ UNCHANGED <<local, history, lock>>
             [] r.tag = "Err" ->
                  Return(t, history, Propagate(r.err))
             [] r.tag = "Ok" ->
                  /\ Goto(t, "charge")
                  /\ local' = [local EXCEPT ![t] = [k |-> local[t].k, order |-> r.order]]
                  /\ UNCHANGED <<history, lock>>
    /\ UNCHANGED <<overflow_checks, handler, next_id, orders, got>>

\* self.payment.charge(order.total)?;
t_charge(t) ==
    /\ pc[t] = "charge"
    /\ \E res \in AdapterResults :
         LET h == LoggedBy(t, Call("charge", local[t].order.total, res))
         IN  IF res = "Ok"
             THEN /\ Goto(t, "save")
                  /\ history' = h
                  /\ UNCHANGED <<local, lock>>
             ELSE Return(t, h, Propagate(res))
    /\ UNCHANGED <<overflow_checks, handler, next_id, orders, got>>

\* self.repository.save(&order)?;
t_save(t) ==
    /\ pc[t] = "save"
    /\ \E res \in AdapterResults :
         LET h == LoggedBy(t, Call("save", local[t].order, res))
         IN  IF res = "Ok"
             THEN /\ Goto(t, "send")
                  /\ orders' = save(orders, local[t].order)
                  /\ history' = h
                  /\ UNCHANGED <<local, lock>>
             ELSE /\ Return(t, h, Propagate(res))
                  /\ UNCHANGED orders
    /\ UNCHANGED <<overflow_checks, handler, next_id, got>>

\* self.sender.send(&order)?; Ok(order)
t_send(t) ==
    /\ pc[t] = "send"
    /\ \E res \in AdapterResults :
         Return(t, LoggedBy(t, Call("send", local[t].order, res)),
                IF res = "Ok" THEN [tag |-> "Ok", order |-> local[t].order]
                              ELSE Propagate(res))
    /\ UNCHANGED <<overflow_checks, handler, next_id, orders, got>>

NextLocked ==
    \/ \E t \in Threads, items \in ItemSeqs : locked_begin(t, items)
    \/ \E t \in Threads : t_alloc(t)
    \/ \E t \in Threads : t_new(t)
    \/ \E t \in Threads : t_charge(t)
    \/ \E t \in Threads : t_save(t)
    \/ \E t \in Threads : t_send(t)

SpecLocked == InitThreads /\ [][NextLocked]_vars

\* what caller t orders in a race: the t-th entry of the menu
RaceItems(t) == { Take(t, 1) }

NextRace ==
    \/ \E t \in Threads : \E items \in RaceItems(t) : race_begin(t, items)
    \/ \E t \in Threads : race_read(t)
    \/ \E t \in Threads : race_inc(t)
    \/ \E t \in Threads : t_new(t)
    \/ \E t \in Threads : t_charge(t)
    \/ \E t \in Threads : t_save(t)
    \/ \E t \in Threads : t_send(t)

SpecRace == InitThreads /\ [][NextRace]_vars

\* C17: when every place_order of several callers runs under the mutex, the
\* k-th invocation is issued identifier k (so the identifiers issued are
\* pairwise distinct and consecutive), and a port call is made only while every
\* other invocation has already returned: port calls are never interleaved.
C17_LockedIdsConsecutiveNoInterleaving ==
    /\ [](\A k \in Invocations : history[k].id \in {NoId, U32(k)})
    /\ [][\A k \in Invocations :
            history'[k].ports # history[k].ports =>
                \A j \in Invocations \ {k} : HasReturned(j)]_vars

\* two callers each completed a place_order on the shared orchestrator
C17_Witness ==
    /\ Len(history) >= 2
    /\ history[1].thread # history[2].thread
    /\ history[1].ret.tag = "Ok" /\ history[2].ret.tag = "Ok"
    /\ history[1].id = U32(1) /\ history[2].id = U32(2)
    /\ PortNames(1) = Workflow /\ PortNames(2) = Workflow

\* the invocation passed an order to save and save answered Ok
Saved(k) == Len(history[k].ports) >= 2 /\ history[k].ports[2].res = "Ok"

\* C18: with the read of next_id and its increment as separate steps and no
\* serialization, an invocation's identifier is one more than the number of
\* increments done when it read the counter (two reads with no increment in
\* between give the same identifier), and every successful save leaves the
\* saver's order under its identifier, whatever was held there before.
C18_UncoordinatedCounterRace ==
    /\ [](\A k \in Invocations :
            history[k].id \in {NoId, U32(1 + Cardinality(history[k].seen))})
    /\ [][\A t \in Threads :
            (pc[t] = "save" /\ pc'[t] = "send") =>
                find(orders', local[t].order.id) = [tag |-> "Some", order |-> local[t].order]]_vars

\* two invocations hold the same identifier, both saved, and the repository
\* holds the order of the second in place of the order of the first
C18_Witness ==
    \E j, k \in Invocations :
        /\ j # k
        /\ history[j].id # NoId
        /\ history[j].id = history[k].id
        /\ Saved(j) /\ Saved(k)
        /\ OrderOf(j) # OrderOf(k)
        /\ history[j].id \in DOMAIN orders
        /\ orders[history[j].id] = OrderOf(k)

----------------------------------------------------------------------------
(* Termination of place_order of examples/ex07.rs. A port is a synchronous  *)
(* call through a trait object: the orchestrator resumes only when the call *)
(* returns. A call that never returns leaves the invocation at that call.   *)

\* the port call made at pc is entered and never returns
place_order_blocks ==
    /\ pc \in {"charge", "save", "send"}
    /\ history' = Logged(Call(pc, IF pc = "charge" THEN local.order.total ELSE local.order,
                              "Blocked"))
    /\ pc' = "blocked"
    /\ UNCHANGED <<overflow_checks, handler, lock, next_id, orders, local, got>>

\* the steps of an invocation that has started: the caller's thread runs them
\* one after the other, nothing else is scheduled in between
place_order_running ==
    \/ place_order_new
    \/ place_order_charge
    \/ place_order_save
    \/ place_order_send

NextBlocking ==
    \/ Next
    \/ place_order_blocks

SpecBlocking == Init /\ [][NextBlocking]_vars /\ WF_vars(place_order_running)

NeverReturned(k) ==
    /\ history[k].ports # <<>>
    /\ history[k].ports[Len(history[k].ports)].res = "Blocked"

\* the n-th invocation returned a result, or sits in a call that never returns
Settled(n) == Len(history) >= n /\ (HasReturned(n) \/ NeverReturned(n))

\* C19 as stated: an invocation makes at most three port calls; a port call
\* that never returns is the last one of its invocation, which then never
\* returns; and whenever no port call is left unanswered, a started invocation
\* eventually returns a result.
C19_ReturnsUnlessPortBlocks ==
    /\ [](\A k \in Invocations :
            /\ Len(history[k].ports) <= 3
            /\ \A i \in 1..Len(history[k].ports) :
                 history[k].ports[i].res = "Blocked" =>
                     i = Len(history[k].ports) /\ history[k].ret = Pending)
    /\ [][pc = "blocked" => pc' = "blocked"]_vars
    /\ \A n \in 1..MaxCalls : (Len(history) >= n) ~> Settled(n)

----------------------------------------------------------------------------
(* Repository contents over the lifetime of one orchestrator (ex07.rs)      *)

\* the invocations whose save step succeeded
SavedInvocations == { k \in Invocations : Saved(k) }

\* C21: from an empty repository, Repository.save is never called with an
\* identifier the repository already holds, and the repository holds as many
\* orders as there are invocations whose save step succeeded.
C21_SaveNeverOverwrites ==
    /\ [](Cardinality(DOMAIN orders) = Cardinality(SavedInvocations))
    /\ [][(pc = "save" /\ history' # history) =>
            (local.order.id \notin DOMAIN orders)]_vars

\* two invocations saved, and the repository holds both orders
C21_Witness ==
    /\ Cardinality(SavedInvocations) = 2
    /\ \A k \in SavedInvocations :
         /\ history[k].id \in DOMAIN orders
         /\ orders[history[k].id] = OrderOf(k)

\* the invocation returned InvalidOrder or PaymentFailed
RejectedEarly(k) == ReturnedErr(k, "InvalidOrder") \/ ReturnedErr(k, "PaymentFailed")

\* C22: an invocation that returns InvalidOrder or PaymentFailed never reached
\* save; none of its steps (allocation, construction, charge) changes the
\* repository; and when it returns, next_id is its identifier plus one.
C22_EarlyFailureFrame ==
    /\ [](\A k \in Invocations : RejectedEarly(k) => Count(k, "save") = 0)
    /\ [][(pc \in {"idle", "new", "charge"}) => (orders' = orders)]_vars
    /\ [][(Cur >= 1 /\ Len(history') = Cur /\ ~RejectedEarly(Cur) /\ RejectedEarly(Cur)') =>
            (next_id' = AddU32(history[Cur].id, U32(1)).val /\ orders' = orders)]_vars

\* a stored order is still there, unchanged, after a later invocation was
\* refused by the payment gateway
C22_Witness ==
    /\ Len(history) = 2
    /\ Saved(1)
    /\ ReturnedErr(2, "PaymentFailed")
    /\ DOMAIN orders = {history[1].id}
    /\ orders[history[1].id] = OrderOf(1)
    /\ next_id = U32(3)

----------------------------------------------------------------------------
(* A repository that outlives its orchestrator (ex07.rs): OrderService::new *)
(* borrows the repository, so a second service can be constructed on a      *)
(* repository that the first one, now dropped, has filled.                  *)

\* the n-th order the first service placed: the items main orders
PreviousOrder(n) == Order_new(U32(n), Take(1, 2), FALSE).order

\* what the first service left in the repository: its first order, or its
\* first two
PreviousRepos ==
    { save(<< >>, PreviousOrder(1)),
      save(save(<< >>, PreviousOrder(1)), PreviousOrder(2)) }

\* a constructor that numbers on from what the repository holds
InitReuse_continue ==
    /\ overflow_checks \in BOOLEAN
    /\ orders \in PreviousRepos
    /\ next_id = U32(Cardinality(DOMAIN orders) + 1)
    /\ pc = "idle"
    /\ local = NoLocal
    /\ history = <<>>
    /\ got = NoGet
    /\ handler = NoHandler
    /\ lock = Free

\* OrderService::new(&mut repo, &payment, &sender) on the repository left by
\* a dropped service: next_id: 1
InitReuse ==
    /\ overflow_checks \in BOOLEAN
    /\ orders \in PreviousRepos
    /\ next_id = U32(1)
    /\ pc = "idle"
    /\ local = NoLocal
    /\ history = <<>>
    /\ got = NoGet
    /\ handler = NoHandler
    /\ lock = Free

SpecReuse == InitReuse /\ [][Next]_vars

\* the first invocation of the new service that returned an order
FirstSuccess ==
    { k \in Invocations :
        /\ history[k].ret.tag = "Ok"
        /\ \A j \in 1..(k - 1) : history[j].ret.tag # "Ok" }

\* C23 as stated: the new service numbers its invocations from 1, its first
\* successful place_order replaces the order stored under identifier 1, and
\* get_order(1) then returns that new order.
C23_FirstSuccessReplacesOrderOne ==
    /\ \A k \in Invocations : history[k].id = U32(k)
    /\ \A k \in FirstSuccess :
         /\ U32(1) \in DOMAIN orders
         /\ orders[U32(1)] = history[k].ret.order
    /\ (got.tag = "called" /\ got.id = U32(1)) =>
         \A k \in FirstSuccess : IsSome(got.ret, history[k].ret.order)

\* the first invocation of the new service passed its order to save and save
\* answered Ok
FirstSaved == Len(history) >= 1 /\ Saved(1)

\* C23 amended: the new service numbers its invocations from 1; the order
\* under identifier 1 is the old one until the save step of the new service's
\* first invocation succeeds and is that invocation's order from then on,
\* whatever the invocation returns afterwards; get_order(1) then returns the
\* new order unless Repository.find itself fails.
C23_FirstSaveReplacesOrderOne ==
    /\ \A k \in Invocations : history[k].id = U32(k)
    /\ U32(1) \in DOMAIN orders
    /\ orders[U32(1)] = IF FirstSaved THEN OrderOf(1) ELSE PreviousOrder(1)
    /\ (FindAnswered /\ got.id = U32(1) /\ FirstSaved) => IsSome(got.ret, OrderOf(1))

\* the new service's first order took the place of a different old order
\* under identifier 1 and get_order(1) returned it
C23_Witness ==
    /\ FirstSaved
    /\ history[1].ret.tag = "Ok"
    /\ OrderOf(1) # PreviousOrder(1)
    /\ orders[U32(1)] = OrderOf(1)
    /\ FindAnswered
    /\ got.id = U32(1)
    /\ IsSome(got.ret, OrderOf(1))

----------------------------------------------------------------------------
(* The end of the counter's range (ex07.rs): next_id is a u32 that starts   *)
(* at 1 and is advanced once per invocation, also by place_order(vec![]),   *)
(* which touches no port. After U32Max - 1 such invocations next_id holds   *)
(* U32Max and the repository is still empty; history shows the invocations  *)
(* from there on.                                                           *)

InitWrap ==
    /\ overflow_checks \in BOOLEAN
    /\ next_id = U32Max
    /\ orders = << >>
    /\ pc = "idle"
    /\ local = NoLocal
    /\ history = <<>>
    /\ got = NoGet
    /\ handler = NoHandler
    /\ lock = Free

SpecWrap == InitWrap /\ [][Next]_vars

\* the identifier of the service's very first invocation (next_id: 1)
FirstIssued == U32(1)

\* C24: no invocation is issued identifier 0, no two invocations are issued
\* the same identifier, and none is issued again the identifier of the
\* service's first invocation, also once next_id has held the largest u32.
C24_CounterNeverWraps ==
    /\ \A k \in Invocations : history[k].id # U32(0)
    /\ \A k \in Invocations : history[k].id # FirstIssued
    /\ \A j, k \in Invocations : j # k => history[j].id # history[k].id

----------------------------------------------------------------------------
(* examples/ex06.rs: two ports, a repository and a notifier, both borrowed. *)
(* Its Order is { id, total } and its OrderError has no variant.            *)

\* Result<(), OrderError> of OrderRepository::save (ex06)
RepoSaveResults == {"Ok"} \cup NoOrderError

\* the Result around Option<Order> of OrderRepository::find (ex06)
RepoFindResults == {"Ok"} \cup NoOrderError

\* OrderService::new(&mut repo, &notifier) with InMemoryOrderRepository::new()
InitRepo ==
    /\ overflow_checks \in BOOLEAN
    /\ next_id = U32(1)
    /\ orders = << >>
    /\ pc = "idle"
    /\ local = NoLocal
    /\ history = <<>>
    /\ got = NoGet
    /\ handler = "ConsoleNotifier"
    /\ lock = Free

\* let order = Order { id: self.next_id, total }; self.next_id += 1;
process_order_repo_build(total) ==
    /\ pc = "idle"
    /\ Cur < MaxCalls
    /\ LET inc == AddU32(next_id, U32(1))
       IN  /\ history' = Append(history, StartedOrder(next_id, total, handler))
           /\ IF inc.overflow /\ overflow_checks
              THEN /\ pc' = "panicked"
                   /\ UNCHANGED <<next_id, local>>
              ELSE /\ next_id' = inc.val
                   /\ local' = [order |-> SimpleOrder(next_id, total), notifier |-> handler]
                   /\ pc' = "save"
    /\ got' = NoGet
    /\ UNCHANGED <<overflow_checks, handler, lock, orders>>

\* the save step left out: the notifier is called on an order never stored
process_order_repo_save_skipped ==
    /\ pc = "save"
    /\ pc' = "notify"
    /\ UNCHANGED <<overflow_checks, handler, lock, next_id, orders, local, history, got>>

\* self.repository.save(&order)?;
process_order_repo_save ==
    /\ pc = "save"
    /\ \E res \in RepoSaveResults :
         LET h == Logged(CallOn("InMemoryOrderRepository", "save", local.order, res))
         IN  IF res = "Ok"
             THEN /\ pc' = "notify"
                  /\ orders' = save(orders, local.order)
                  /\ history' = h
                  /\ UNCHANGED local
             ELSE /\ pc' = "idle"
                  /\ history' = Returned(h, Propagate(res))
                  /\ local' = NoLocal
                  /\ UNCHANGED orders
    /\ UNCHANGED <<overflow_checks, handler, lock, next_id, got>>

\* self.notifier.process(&order)?; Ok(order)
process_order_repo_notify ==
    /\ pc = "notify"
    /\ \E res \in NotifyResults :
         LET h == Logged(CallOn(local.notifier, "process", local.order, res))
         IN  /\ pc' = "idle"
             /\ local' = NoLocal
             /\ history' = Returned(h, IF res = "Ok"
                                       THEN [tag |-> "Ok", order |-> local.order]
                                       ELSE Propagate(res))
    /\ UNCHANGED <<overflow_checks, handler, lock, next_id, orders, got>>

\* self.repository.find(id)
get_order_repo(id) ==
    /\ pc = "idle"
    /\ \E res \in RepoFindResults :
         got' = [tag |-> "called", id |-> id,
                 ports |-> << CallOn("InMemoryOrderRepository", "find", id, res) >>,
                 ret |-> IF res = "Ok" THEN find(orders, id) ELSE Propagate(res)]
    /\ UNCHANGED <<overflow_checks, handler, lock, next_id, orders, pc, local, history>>

NextRepo ==
    \/ \E total \in Totals : process_order_repo_build(total)
    \/ process_order_repo_save
    \/ process_order_repo_notify
    \/ \E id \in GetIds : get_order_repo(id)

SpecRepo == InitRepo /\ [][NextRepo]_vars

\* the invocation's save call answered Ok
StoredBy(k) == Len(history[k].ports) >= 1 /\ history[k].ports[1].res = "Ok"

\* C25: in ex06 the k-th process_order uses identifier k and advances next_id
\* whatever follows; it calls save, then process, each at most once; process
\* is called only after save answered Ok; an order whose save answered Ok is
\* in the repository whatever the notifier answers, and a later get_order with
\* its identifier returns it.
C25_TwoPortWorkflow ==
    /\ \A k \in Invocations :
         /\ history[k].id = U32(k)
         /\ IsPrefix(PortNames(k), <<"save", "process">>)
         /\ Len(history[k].ports) = 2 => history[k].ports[1].res = "Ok"
         /\ (Len(history[k].ports) = 1 /\ ~StoredBy(k)) => history[k].ret.tag = "Err"
         /\ StoredBy(k) =>
              /\ history[k].id \in DOMAIN orders
              /\ orders[history[k].id] = history[k].ports[1].arg
    /\ pc # "panicked" => next_id = U32(Len(history) + 1)
    /\ got.tag = "called" =>
         \A k \in Invocations :
            (StoredBy(k) /\ history[k].id = got.id) =>
                IsSome(got.ret, history[k].ports[1].arg)

\* two orders went through save and process, and get_order with the first
\* identifier returned the first order
C25_Witness ==
    /\ Len(history) = 2
    /\ \A k \in Invocations :
         /\ PortNames(k) = <<"save", "process">>
         /\ history[k].ret.tag = "Ok"
    /\ got.tag = "called"
    /\ got.id = U32(1)
    /\ IsSome(got.ret, history[1].ret.order)

====
